---- MODULE Spec2Model ----
(***************************************************************************)
(* Model of src/binary-search-tree.js: class Node and class                *)
(* BinarySearchTree.                                                       *)
(*                                                                         *)
(* Objects live in a heap: heap[i] is the Node with reference i, NULL is   *)
(* the null reference.  `new Node(val)` appends a record to the heap.  A   *)
(* node that a call unlinks from the tree stays in the heap with the       *)
(* fields it had, so that the node remove returns can be looked at; the    *)
(* client drops it before its next mutating call, and nodes that nothing   *)
(* references are then reclaimed (Collect).                                *)
(*                                                                         *)
(* Every method is one action.  Its outcome is recorded in `ret`:          *)
(*   kind "this"       the method returned the tree (insert)               *)
(*   kind "node"       it returned the Node with reference ret.node        *)
(*   kind "undefined"  it returned undefined                               *)
(*   kind "null"       it returned null                                    *)
(*   kind "array"      it returned the array ret.seq                       *)
(*   kind "value"      it returned the stored value ret.num                *)
(*   kind "TypeError"  it threw on reading a property of null              *)
(*   kind "true", "false"  it returned that boolean                       *)
(*   kind "diverges"   it never returns (a loop that repeats its state)    *)
(* Values are the numbers 1..MaxVal, compared with <, > and ===.           *)
(***************************************************************************)
EXTENDS Integers, Sequences, FiniteSets

VARIABLES heap, root, twin, given, prev, call, ret

vars == <<heap, root, twin, given, prev, call, ret>>

\* Bounds of the model: the values offered to the methods, and the number of
\* nodes a tree may hold.
MaxVal == 5
MaxNodes == 5

\* The nodes of a tree that may hold a value more than once (SpecRec).
MaxRecNodes == 4

Values == 1..MaxVal

NULL == 0

\* The val of remove's synthetic parent, `new Node(null)`.
NullVal == 0

\* new Node(val): left and right default to null.
Node(val) == [val |-> val, left |-> NULL, right |-> NULL]

Ret(kind, node, num, seq) == [kind |-> kind, node |-> node, num |-> num, seq |-> seq]

RetThis == Ret("this", NULL, 0, <<>>)
RetUndefined == Ret("undefined", NULL, 0, <<>>)
RetNull == Ret("null", NULL, 0, <<>>)
RetTypeError == Ret("TypeError", NULL, 0, <<>>)
RetDiverges == Ret("diverges", NULL, 0, <<>>)
RetNode(n) == Ret("node", n, 0, <<>>)
RetArray(s) == Ret("array", NULL, 0, s)
RetValue(x) == Ret("value", NULL, x, <<>>)

\* What a mutating method leaves behind: the heap, this.root and the outcome.
Outcome(h, r, res) == [heap |-> h, root |-> r, ret |-> res]

-----------------------------------------------------------------------------
(* insert(val), lines 41-65 *)

\* The while (true) loop of insert, from `current`.  When val equals
\* current.val neither branch fires and the loop repeats with the same
\* state: the call never returns.
\* insert's loop without the tests for an empty child: the new node is
\* attached below the first node looked at, over whatever was linked there.
InsertLoopOverwrite(h, r, current, v) ==
  IF v < h[current].val
  THEN Outcome(Append([h EXCEPT ![current].left = Len(h) + 1], Node(v)), r, RetThis)
  ELSE IF v > h[current].val
  THEN Outcome(Append([h EXCEPT ![current].right = Len(h) + 1], Node(v)), r, RetThis)
  ELSE Outcome(h, r, RetDiverges)

RECURSIVE InsertLoop(_, _, _, _)
InsertLoop(h, r, current, v) ==
  IF v < h[current].val
  THEN IF h[current].left = NULL
       THEN Outcome(Append([h EXCEPT ![current].left = Len(h) + 1], Node(v)), r, RetThis)
       ELSE InsertLoop(h, r, h[current].left, v)
  ELSE IF v > h[current].val
  THEN IF h[current].right = NULL
       THEN Outcome(Append([h EXCEPT ![current].right = Len(h) + 1], Node(v)), r, RetThis)
       ELSE InsertLoop(h, r, h[current].right, v)
  ELSE Outcome(h, r, RetDiverges)

Insert(h, r, v) ==
  IF r = NULL
  THEN Outcome(Append(h, Node(v)), Len(h) + 1, RetThis)
  ELSE InsertLoop(h, r, r, v)

-----------------------------------------------------------------------------
(* insertRecursively(val, current = this.root), lines 74-93 *)

\* insertRecursively that compares val with this.root.val at every level.
RECURSIVE InsertRecursivelyByRoot(_, _, _, _)
InsertRecursivelyByRoot(h, r, current, v) ==
  IF r = NULL
  THEN Outcome(Append(h, Node(v)), Len(h) + 1, RetThis)
  ELSE IF v < h[r].val
  THEN IF h[current].left = NULL
       THEN Outcome(Append([h EXCEPT ![current].left = Len(h) + 1], Node(v)), r, RetThis)
       ELSE InsertRecursivelyByRoot(h, r, h[current].left, v)
  ELSE IF h[current].right = NULL
       THEN Outcome(Append([h EXCEPT ![current].right = Len(h) + 1], Node(v)), r, RetThis)
       ELSE InsertRecursivelyByRoot(h, r, h[current].right, v)

RECURSIVE InsertRecursively(_, _, _, _)
InsertRecursively(h, r, current, v) ==
  IF r = NULL
  THEN Outcome(Append(h, Node(v)), Len(h) + 1, RetThis)
  ELSE IF v < h[current].val
  THEN IF h[current].left = NULL
       THEN Outcome(Append([h EXCEPT ![current].left = Len(h) + 1], Node(v)), r, RetThis)
       ELSE InsertRecursively(h, r, h[current].left, v)
  ELSE IF h[current].right = NULL
       THEN Outcome(Append([h EXCEPT ![current].right = Len(h) + 1], Node(v)), r, RetThis)
       ELSE InsertRecursively(h, r, h[current].right, v)

-----------------------------------------------------------------------------
(* find(val), lines 101-118 *)

\* The while (currentNode && !found) loop; its result is line 117's
\* `found ? currentNode : undefined`.
RECURSIVE FindLoop(_, _, _)
FindLoop(h, currentNode, v) ==
  IF currentNode = NULL THEN RetUndefined
  ELSE IF v < h[currentNode].val THEN FindLoop(h, h[currentNode].left, v)
  ELSE IF v > h[currentNode].val THEN FindLoop(h, h[currentNode].right, v)
  ELSE RetNode(currentNode)

\* Line 105: val === currentNode?.val is false on a null root, because a
\* value of 1..MaxVal is never undefined.
Find(h, r, v) ==
  IF r # NULL /\ v = h[r].val THEN RetNode(r) ELSE FindLoop(h, r, v)

(* findRecursively(val, current = this.root), lines 127-138 *)

\* findRecursively that gives up at a missing left child whichever way it
\* should turn.
RECURSIVE FindRecursivelyLeftTest(_, _, _, _)
FindRecursivelyLeftTest(h, r, current, v) ==
  IF r = NULL THEN RetUndefined
  ELSE IF v < h[current].val
  THEN IF h[current].left = NULL THEN RetUndefined
       ELSE FindRecursivelyLeftTest(h, r, h[current].left, v)
  ELSE IF v > h[current].val
  THEN IF h[current].left = NULL \/ h[current].right = NULL THEN RetUndefined
       ELSE FindRecursivelyLeftTest(h, r, h[current].right, v)
  ELSE RetNode(current)

RECURSIVE FindRecursively(_, _, _, _)
FindRecursively(h, r, current, v) ==
  IF r = NULL THEN RetUndefined
  ELSE IF v < h[current].val
  THEN IF h[current].left = NULL THEN RetUndefined
       ELSE FindRecursively(h, r, h[current].left, v)
  ELSE IF v > h[current].val
  THEN IF h[current].right = NULL THEN RetUndefined
       ELSE FindRecursively(h, r, h[current].right, v)
  ELSE RetNode(current)

-----------------------------------------------------------------------------
(* The recursive traversals, lines 144-186: the `traverse` closures. *)

RECURSIVE PreOrderTraverse(_, _)
PreOrderTraverse(h, node) ==
  IF node = NULL THEN <<>>
  ELSE <<h[node].val>> \o PreOrderTraverse(h, h[node].left)
                       \o PreOrderTraverse(h, h[node].right)

RECURSIVE InOrderTraverse(_, _)
InOrderTraverse(h, node) ==
  IF node = NULL THEN <<>>
  ELSE InOrderTraverse(h, h[node].left) \o <<h[node].val>>
                                        \o InOrderTraverse(h, h[node].right)

RECURSIVE PostOrderTraverse(_, _)
PostOrderTraverse(h, node) ==
  IF node = NULL THEN <<>>
  ELSE PostOrderTraverse(h, h[node].left) \o PostOrderTraverse(h, h[node].right)
                                          \o <<h[node].val>>

DfsPreOrder(h, r) == RetArray(PreOrderTraverse(h, r))
DfsInOrder(h, r) == RetArray(InOrderTraverse(h, r))
DfsPostOrder(h, r) == RetArray(PostOrderTraverse(h, r))

-----------------------------------------------------------------------------
(* bfs(), lines 192-204 *)

\* The while (queue.length > 0) loop.  queue.shift() of a null entry makes
\* line 198 read null.val, which throws.
RECURSIVE BfsLoop(_, _, _)
BfsLoop(h, queue, data) ==
  IF Len(queue) = 0 THEN RetArray(data)
  ELSE LET node == Head(queue)
           rest == Tail(queue)
       IN IF node = NULL THEN RetTypeError
          ELSE LET q1 == IF h[node].left # NULL THEN Append(rest, h[node].left) ELSE rest
                   q2 == IF h[node].right # NULL THEN Append(q1, h[node].right) ELSE q1
               IN BfsLoop(h, q2, Append(data, h[node].val))

\* Line 194 seeds the queue with this.root, null or not.
Bfs(h, r) == BfsLoop(h, <<r>>, <<>>)

-----------------------------------------------------------------------------
(* dfsInOrderIterative(), lines 328-346 *)

\* PushLeft that pushes cur alone and never descends.
PushLeftNoDescent(h, stack, cur) ==
  IF cur # NULL THEN Append(stack, cur) ELSE stack

\* The inner while (cur) loop: push cur and its left spine.
RECURSIVE PushLeft(_, _, _)
PushLeft(h, stack, cur) ==
  IF cur # NULL THEN PushLeft(h, Append(stack, cur), h[cur].left) ELSE stack

\* The outer while (stack.length > 0 || cur) loop.  stack.pop() of an empty
\* stack is undefined, which `if (cur)` skips.
RECURSIVE IterativeLoop(_, _, _, _)
IterativeLoop(h, stack, cur, dfs) ==
  IF Len(stack) > 0 \/ cur # NULL
  THEN LET pushed == PushLeft(h, stack, cur)
           popped == IF Len(pushed) = 0 THEN NULL ELSE pushed[Len(pushed)]
           rest == IF Len(pushed) = 0 THEN pushed ELSE SubSeq(pushed, 1, Len(pushed) - 1)
       IN IF popped # NULL
          THEN IterativeLoop(h, rest, h[popped].right, Append(dfs, h[popped].val))
          ELSE IterativeLoop(h, rest, popped, dfs)
  ELSE dfs

DfsInOrderIterative(h, r) == RetArray(IterativeLoop(h, <<>>, r, <<>>))

-----------------------------------------------------------------------------
(* remove(val), lines 211-282 *)

\* The search loop, lines 215-222.  nodeToRemove?.val of a null node is
\* undefined, which differs from every value, so the body runs and line 217
\* reads null.val: the search throws when it falls off the tree.
RECURSIVE RemoveSearch(_, _, _, _)
RemoveSearch(h, nodeToRemove, parent, v) ==
  IF nodeToRemove = NULL
  THEN [thrown |-> TRUE, node |-> NULL, parent |-> parent]
  ELSE IF h[nodeToRemove].val = v
  THEN [thrown |-> FALSE, node |-> nodeToRemove, parent |-> parent]
  ELSE IF v < h[nodeToRemove].val
  THEN RemoveSearch(h, h[nodeToRemove].left, nodeToRemove, v)
  ELSE RemoveSearch(h, h[nodeToRemove].right, nodeToRemove, v)

\* SetChild without the test of which child nodeToRemove is.
SetChildAlwaysLeft(h, parent, nodeToRemove, x) == [h EXCEPT ![parent].left = x]

\* if (parent.left === nodeToRemove) parent.left = x; else parent.right = x;
\* (lines 236-240, 247-251 and 270-274).
SetChild(h, parent, nodeToRemove, x) ==
  IF h[parent].left = nodeToRemove
  THEN [h EXCEPT ![parent].left = x]
  ELSE [h EXCEPT ![parent].right = x]

\* Lines 257-261: the successor's value is written into the node that
\* parent links to, which is nodeToRemove itself.
CopyVal(h, parent, nodeToRemove, x) ==
  IF h[parent].left = nodeToRemove
  THEN [h EXCEPT ![h[parent].left].val = x]
  ELSE [h EXCEPT ![h[parent].right].val = x]

\* LeftSpine without the walk: the right child taken for the successor.
LeftSpineNoWalk(h, rightParent, right) ==
  [rightParent |-> rightParent, right |-> right]

\* Lines 253-256: walk down the left spine below `right`.
RECURSIVE LeftSpine(_, _, _)
LeftSpine(h, rightParent, right) ==
  IF h[right].left # NULL
  THEN LeftSpine(h, right, h[right].left)
  ELSE [rightParent |-> rightParent, right |-> right]

\* The two-children case without line 246: the right child replaces the
\* node but is not given the node's left subtree.
RemoveTwoChildrenDropsLeft(h, parent, nodeToRemove) ==
  LET right == h[nodeToRemove].right
  IN IF h[right].left = NULL
     THEN SetChild(h, parent, nodeToRemove, right)
     ELSE LET s == LeftSpine(h, nodeToRemove, right)
              h1 == CopyVal(h, parent, nodeToRemove, h[s.right].val)
          IN [h1 EXCEPT ![s.rightParent].left = h1[s.right].right]

\* Lines 241-267: nodeToRemove has two children.
RemoveTwoChildren(h, parent, nodeToRemove) ==
  LET right == h[nodeToRemove].right
  IN IF h[right].left = NULL
     THEN SetChild([h EXCEPT ![right].left = h[nodeToRemove].left],
                   parent, nodeToRemove, right)
     ELSE LET s == LeftSpine(h, nodeToRemove, right)
              h1 == CopyVal(h, parent, nodeToRemove, h[s.right].val)
          IN [h1 EXCEPT ![s.rightParent].left = h1[s.right].right]

\* Lines 234-275: unlink nodeToRemove below parent.
Unlink(h, parent, nodeToRemove) ==
  IF h[nodeToRemove].left = NULL /\ h[nodeToRemove].right = NULL
  THEN SetChild(h, parent, nodeToRemove, NULL)
  ELSE IF h[nodeToRemove].left # NULL /\ h[nodeToRemove].right # NULL
  THEN RemoveTwoChildren(h, parent, nodeToRemove)
  ELSE SetChild(h, parent, nodeToRemove,
                IF h[nodeToRemove].left # NULL THEN h[nodeToRemove].left
                                              ELSE h[nodeToRemove].right)

\* remove without lines 277-279: this.root is left as it was.
RemoveKeepsRoot(h, r, v) ==
  LET s == RemoveSearch(h, r, NULL, v)
  IN IF s.thrown THEN Outcome(h, r, RetTypeError)
     ELSE LET nodeToRemove == s.node
              isRoot == nodeToRemove = r
              tempRoot == Len(h) + 1
              h0 == IF isRoot
                    THEN Append(h, [val |-> NullVal, left |-> r, right |-> NULL])
                    ELSE h
              parent == IF isRoot THEN tempRoot ELSE s.parent
              h1 == Unlink(h0, parent, nodeToRemove)
              h2 == IF isRoot THEN SubSeq(h1, 1, Len(h)) ELSE h1
          IN Outcome(h2, r, RetNode(nodeToRemove))

\* remove(val).  For the root, tempRoot = new Node(null) with the root as
\* its left child stands in for the parent (lines 226-232); it is referenced
\* by nothing once the call returns and is not kept in the heap.
Remove(h, r, v) ==
  LET s == RemoveSearch(h, r, NULL, v)
  IN IF s.thrown THEN Outcome(h, r, RetTypeError)
     ELSE LET nodeToRemove == s.node
              isRoot == nodeToRemove = r
              tempRoot == Len(h) + 1
              h0 == IF isRoot
                    THEN Append(h, [val |-> NullVal, left |-> r, right |-> NULL])
                    ELSE h
              parent == IF isRoot THEN tempRoot ELSE s.parent
              h1 == Unlink(h0, parent, nodeToRemove)
              newRoot == IF r = nodeToRemove THEN h1[parent].left ELSE r
              h2 == IF isRoot THEN SubSeq(h1, 1, Len(h)) ELSE h1
          IN Outcome(h2, newRoot, RetNode(nodeToRemove))

-----------------------------------------------------------------------------
(* isBalanced(current = this.root), lines 289-303 *)

Min(a, b) == IF a < b THEN a ELSE b
Max(a, b) == IF a > b THEN a ELSE b

RECURSIVE minDepth(_, _)
minDepth(h, node) ==
  IF node = NULL THEN 0
  ELSE 1 + Min(minDepth(h, h[node].left), minDepth(h, h[node].right))

RECURSIVE maxDepth(_, _)
maxDepth(h, node) ==
  IF node = NULL THEN 0
  ELSE 1 + Max(maxDepth(h, h[node].left), maxDepth(h, h[node].right))

\* isBalanced with < in place of <= on line 302.
IsBalancedStrict(h, current) ==
  IF current = NULL THEN Ret("true", NULL, 0, <<>>)
  ELSE IF maxDepth(h, current) - minDepth(h, current) < 1
  THEN Ret("true", NULL, 0, <<>>)
  ELSE Ret("false", NULL, 0, <<>>)

IsBalanced(h, current) ==
  IF current = NULL THEN Ret("true", NULL, 0, <<>>)
  ELSE IF maxDepth(h, current) - minDepth(h, current) <= 1
  THEN Ret("true", NULL, 0, <<>>)
  ELSE Ret("false", NULL, 0, <<>>)

-----------------------------------------------------------------------------
(* findSecondHighest(current = this.root), lines 310-322 *)

\* FindSecondHighest is the method: line 311 looks at this.root on every
\* call, the recursive ones included.  SecondHighestLoop is its
\* while (current) loop; falling out of the loop returns undefined.
RECURSIVE FindSecondHighest(_, _, _)
RECURSIVE SecondHighestLoop(_, _, _)

\* The loop returning current.right.val on line 318: the leaf's own value.
RECURSIVE SecondHighestLoopReturnsLeaf(_, _, _)
SecondHighestLoopReturnsLeaf(h, r, current) ==
  IF current = NULL THEN RetUndefined
  ELSE IF h[current].left # NULL /\ h[current].right = NULL
  THEN FindSecondHighest(h, r, h[current].left)
  ELSE IF h[current].right # NULL
          /\ h[h[current].right].left = NULL /\ h[h[current].right].right = NULL
  THEN RetValue(h[h[current].right].val)
  ELSE SecondHighestLoopReturnsLeaf(h, r, h[current].right)

SecondHighestLoop(h, r, current) ==
  IF current = NULL THEN RetUndefined
  ELSE IF h[current].left # NULL /\ h[current].right = NULL
  THEN FindSecondHighest(h, r, h[current].left)
  ELSE IF h[current].right # NULL
          /\ h[h[current].right].left = NULL /\ h[h[current].right].right = NULL
  THEN RetValue(h[current].val)
  ELSE SecondHighestLoop(h, r, h[current].right)

FindSecondHighest(h, r, current) ==
  IF r = NULL \/ (h[r].left = NULL /\ h[r].right = NULL) THEN RetUndefined
  ELSE SecondHighestLoop(h, r, current)

-----------------------------------------------------------------------------
(* The query methods as calls: the tree each leaves, and what it returns. *)

\* find that walks down with this.root itself in place of the local
\* currentNode: `this.root = this.root.left`, `this.root = this.root.right`.
RECURSIVE FindLoopAdvancingRoot(_, _, _)
FindLoopAdvancingRoot(h, r, v) ==
  IF r = NULL THEN Outcome(h, r, RetUndefined)
  ELSE IF v < h[r].val THEN FindLoopAdvancingRoot(h, h[r].left, v)
  ELSE IF v > h[r].val THEN FindLoopAdvancingRoot(h, h[r].right, v)
  ELSE Outcome(h, r, RetNode(r))

FindCallAdvancingRoot(h, r, v) ==
  IF r # NULL /\ v = h[r].val
  THEN Outcome(h, r, RetNode(r))
  ELSE FindLoopAdvancingRoot(h, r, v)

\* find (lines 101-118): its only assignments are to the locals currentNode
\* (lines 102, 109, 111) and found (lines 103, 113).
FindCall(h, r, v) == Outcome(h, r, Find(h, r, v))

\* findRecursively (lines 127-138): no assignment; it passes current.left or
\* current.right to the next call.
FindRecursivelyCall(h, r, v) == Outcome(h, r, FindRecursively(h, r, r, v))

\* dfsPreOrder, dfsInOrder, dfsPostOrder (lines 144-186): each pushes
\* node.val onto its local array `data` and writes nothing else.
DfsPreOrderCall(h, r) == Outcome(h, r, DfsPreOrder(h, r))
DfsInOrderCall(h, r) == Outcome(h, r, DfsInOrder(h, r))
DfsPostOrderCall(h, r) == Outcome(h, r, DfsPostOrder(h, r))

\* bfs (lines 192-204): shift and push act on the local array `queue`, push
\* on `data`; a TypeError leaves the tree as it was.
BfsCall(h, r) == Outcome(h, r, Bfs(h, r))

\* isBalanced (lines 289-303): minDepth and maxDepth only read.
IsBalancedCall(h, r) == Outcome(h, r, IsBalanced(h, r))

\* findSecondHighest (lines 310-322): its only assignment is to the
\* parameter current (line 320).
FindSecondHighestCall(h, r) == Outcome(h, r, FindSecondHighest(h, r, r))

\* dfsInOrderIterative (lines 328-346): push and pop act on the local arrays
\* `stack` and `dfs`, the assignments on the local cur (lines 336, 338, 341).
DfsInOrderIterativeCall(h, r) == Outcome(h, r, DfsInOrderIterative(h, r))

-----------------------------------------------------------------------------
(* The program: one tree, and the calls a client makes on it. *)

Tree(h, r) == [heap |-> h, root |-> r]

\* The nodes reachable from n, parents before children, left before right.
RECURSIVE Live(_, _)
Live(h, n) ==
  IF n = NULL THEN <<>>
  ELSE <<n>> \o Live(h, h[n].left) \o Live(h, h[n].right)

\* The first k live nodes, each moved to its place in `live`.
RECURSIVE Relocate(_, _, _)
Relocate(h, live, k) ==
  IF k = 0 THEN <<>>
  ELSE LET Ref(n) == IF n = NULL THEN NULL
                     ELSE CHOOSE i \in 1..Len(live) : live[i] = n
           node == h[live[k]]
       IN Append(Relocate(h, live, k - 1),
                 [val |-> node.val, left |-> Ref(node.left), right |-> Ref(node.right)])

\* Garbage collection: a node that neither the tree nor the client
\* references is reclaimed.  A reference is only ever compared with another
\* reference, so the surviving nodes may be renamed; they are named by their
\* place in Live.
Collect(h, r) ==
  LET live == Live(h, r)
  IN Tree(Relocate(h, live, Len(live)), IF r = NULL THEN NULL ELSE 1)

\* new BinarySearchTree(): root = null (lines 30-33).  twin is a second
\* tree, also created empty; given lists the values a client that fills the
\* tree has passed to insert; prev is the tree as it was when the last call
\* began.
Init ==
  /\ heap = <<>>
  /\ root = NULL
  /\ twin = Tree(<<>>, NULL)
  /\ given = <<>>
  /\ prev = Tree(<<>>, NULL)
  /\ call = [op |-> "constructor", arg |-> 0]
  /\ ret = RetThis

\* A mutating method called on the tree `before`, with outcome o.  A call
\* that never returns leaves its caller waiting: nothing follows it.
\* MaxNodes bounds the nodes of the tree.
Mutation(op, arg, before, o) ==
  /\ ret.kind # "diverges"
  /\ Len(o.heap) <= MaxNodes + 1
  /\ Len(Live(o.heap, o.root)) <= MaxNodes
  /\ heap' = o.heap
  /\ root' = o.root
  /\ ret' = o.ret
  /\ prev' = before
  /\ call' = [op |-> op, arg |-> arg]
  /\ UNCHANGED <<twin, given>>

\* A query method called on the tree, with outcome o: the tree the method
\* leaves and what it returned.
Query(op, arg, o) ==
  /\ ret.kind # "diverges"
  /\ heap' = o.heap
  /\ root' = o.root
  /\ ret' = o.ret
  /\ prev' = Tree(heap, root)
  /\ call' = [op |-> op, arg |-> arg]
  /\ UNCHANGED <<twin, given>>

insert(v) ==
  LET t == Collect(heap, root)
  IN Mutation("insert", v, t, Insert(t.heap, t.root, v))

remove(v) ==
  LET t == Collect(heap, root)
  IN Mutation("remove", v, t, Remove(t.heap, t.root, v))

insertRecursively(v) ==
  LET t == Collect(heap, root)
  IN Mutation("insertRecursively", v, t, InsertRecursively(t.heap, t.root, t.root, v))

find(v) == Query("find", v, FindCall(heap, root, v))
findRecursively(v) == Query("findRecursively", v, FindRecursivelyCall(heap, root, v))
dfsPreOrder == Query("dfsPreOrder", 0, DfsPreOrderCall(heap, root))
dfsInOrder == Query("dfsInOrder", 0, DfsInOrderCall(heap, root))
dfsPostOrder == Query("dfsPostOrder", 0, DfsPostOrderCall(heap, root))
bfs == Query("bfs", 0, BfsCall(heap, root))
isBalanced == Query("isBalanced", 0, IsBalancedCall(heap, root))
findSecondHighest == Query("findSecondHighest", 0, FindSecondHighestCall(heap, root))
dfsInOrderIterative == Query("dfsInOrderIterative", 0, DfsInOrderIterativeCall(heap, root))

Next ==
  \/ \E v \in Values : insert(v)
  \/ \E v \in Values : remove(v)
  \/ \E v \in Values : find(v)
  \/ \E v \in Values : findRecursively(v)
  \/ dfsPreOrder
  \/ dfsInOrder
  \/ dfsPostOrder
  \/ bfs
  \/ isBalanced
  \/ findSecondHighest
  \/ dfsInOrderIterative

\* Trees built and changed by insert and remove, and queried.
Spec == Init /\ [][Next]_vars

\* The same input value given to insert on one tree and to
\* insertRecursively on the twin tree.
insertBoth(v) ==
  /\ ret.kind # "diverges"
  /\ LET a == Insert(heap, root, v)
         b == InsertRecursively(twin.heap, twin.root, twin.root, v)
     IN /\ Len(b.heap) <= MaxNodes
        /\ heap' = a.heap
        /\ root' = a.root
        /\ ret' = a.ret
        /\ twin' = Tree(b.heap, b.root)
  /\ prev' = Tree(heap, root)
  /\ call' = [op |-> "insert", arg |-> v]
  /\ UNCHANGED given

NextPair == \E v \in Values : insertBoth(v)

SpecPair == Init /\ [][NextPair]_vars

\* Trees built and changed by insert, insertRecursively and remove, values
\* possibly repeated, and traversed in order.
WithinRec(A) == A /\ Len(Live(heap', root')) <= MaxRecNodes

NextRec ==
  \/ \E v \in Values : WithinRec(insert(v))
  \/ \E v \in Values : WithinRec(insertRecursively(v))
  \/ \E v \in Values : WithinRec(remove(v))
  \/ dfsInOrder

SpecRec == Init /\ [][NextRec]_vars

\* A client that calls insert(v) and, once that has returned, remove(v).
insertThenRemove(v) ==
  LET t == Collect(heap, root)
      a == Insert(t.heap, t.root, v)
      b == IF a.ret.kind = "this" THEN Remove(a.heap, a.root, v) ELSE a
  IN Mutation("insertThenRemove", v, t, b)

\* Trees built and changed by insert and remove, and round trips on them.
NextRound ==
  \/ \E v \in Values : insert(v)
  \/ \E v \in Values : remove(v)
  \/ \E v \in Values : insertThenRemove(v)

SpecRound == Init /\ [][NextRound]_vars

\* A client that fills the tree: it passes insert a value it has not passed
\* before, and keeps the list of the values passed.
fill(v) ==
  /\ ret.kind # "diverges"
  /\ \A i \in 1..Len(given) : given[i] # v
  /\ LET t == Collect(heap, root)
         o == Insert(t.heap, t.root, v)
     IN /\ heap' = o.heap
        /\ root' = o.root
        /\ ret' = o.ret
        /\ prev' = t
  /\ call' = [op |-> "insert", arg |-> v]
  /\ given' = Append(given, v)
  /\ UNCHANGED twin

\* A tree filled with pairwise distinct values, and traversed.
NextFill ==
  \/ \E v \in Values : fill(v)
  \/ dfsPreOrder
  \/ dfsInOrder
  \/ dfsPostOrder
  \/ dfsInOrderIterative
  \/ bfs

SpecFill == Init /\ [][NextFill]_vars

-----------------------------------------------------------------------------
(* What the properties below speak of. *)

\* The references of the nodes reachable from n, and the values they hold.
Nodes(h, n) == {Live(h, n)[i] : i \in 1..Len(Live(h, n))}
Vals(h, n) == {h[m].val : m \in Nodes(h, n)}

\* Strict ordering at every node reachable from r.
Ordered(h, r) ==
  \A n \in Nodes(h, r) :
    /\ \A x \in Vals(h, h[n].left) : x < h[n].val
    /\ \A x \in Vals(h, h[n].right) : x > h[n].val

\* The sequence s with every occurrence of v deleted.
Without(s, v) == SelectSeq(s, LAMBDA x : x # v)

\* A tree as a value: shape and the value at every position, no references.
RECURSIVE Shape(_, _)
Shape(h, n) ==
  IF n = NULL THEN <<>>
  ELSE <<h[n].val, Shape(h, h[n].left), Shape(h, h[n].right)>>

\* The largest element of a non-empty set of numbers.
Largest(S) == CHOOSE x \in S : \A y \in S : y <= x

\* The last call was remove(v) on a tree that held v / did not hold v.
RemovedPresent == call.op = "remove" /\ call.arg \in Vals(prev.heap, prev.root)
RemovedAbsent == call.op = "remove" /\ call.arg \notin Vals(prev.heap, prev.root)

\* The node the last remove was aimed at had two children, and its
\* successor was not its right child but lay further down the left spine.
RemovedWithDeepSuccessor ==
  /\ RemovedPresent
  /\ ret.kind = "node"
  /\ prev.heap[ret.node].left # NULL
  /\ prev.heap[ret.node].right # NULL
  /\ prev.heap[prev.heap[ret.node].right].left # NULL

-----------------------------------------------------------------------------
\* C1: after any sequence of insert and remove calls on an initially empty
\* tree, every node of the tree satisfies the strict ordering: every value in
\* its left subtree is smaller and every value in its right subtree is larger
\* than its own.  (Stated for every reachable state; a call that throws or
\* diverges leaves the tree as it was.)
BSTOrdering == Ordered(heap, root)

\* A remove of a node below the root that had two children and a successor
\* down the left spine of its right subtree.
BSTOrderingWitness ==
  /\ RemovedWithDeepSuccessor
  /\ ret.node # prev.root
  /\ Cardinality(Nodes(heap, root)) >= 4

\* C2: remove(v) called when no node holds v (the empty tree included)
\* returns a not-found result, raises no error and leaves the tree unchanged.
RemoveAbsentNotFound ==
  RemovedAbsent =>
    /\ ret.kind \in {"null", "undefined"}
    /\ Tree(heap, root) = prev

\* C3: insert(v) on a tree that already contains v returns, without adding
\* a node and without error.
InsertDuplicateReturns ==
  (call.op = "insert" /\ call.arg \in Vals(prev.heap, prev.root)) =>
    /\ ret.kind = "this"
    /\ Tree(heap, root) = prev

\* C4: remove(v) of a value present in the tree returns the removed node:
\* the returned node holds v and is no longer reachable from the root.
RemoveReturnsDetachedNode ==
  RemovedPresent =>
    /\ ret.kind = "node"
    /\ heap[ret.node].val = call.arg
    /\ ret.node \notin Nodes(heap, root)

\* C5: remove(v) of a value present in a tree of distinct values removes
\* exactly that value: the in-order sequence after the call is the in-order
\* sequence before it with v deleted, and is one shorter.
RemoveDeletesExactlyValue ==
  RemovedPresent =>
    /\ ret.kind = "node"
    /\ InOrderTraverse(heap, root)
         = Without(InOrderTraverse(prev.heap, prev.root), call.arg)
    /\ Len(InOrderTraverse(heap, root))
         = Len(InOrderTraverse(prev.heap, prev.root)) - 1

\* A remove of the root while it had two children and a successor down the
\* left spine of its right subtree, the successor having a right child.
RemoveDeletesExactlyValueWitness ==
  /\ RemovedWithDeepSuccessor
  /\ ret.node = prev.root
  /\ LET s == LeftSpine(prev.heap, ret.node, prev.heap[ret.node].right)
     IN prev.heap[s.right].right # NULL
  /\ Len(InOrderTraverse(heap, root)) >= 3

\* C6: for every tree, dfsInOrderIterative() returns exactly the sequence
\* dfsInOrder() returns.
IterativeInOrderEqualsRecursive ==
  call.op = "dfsInOrderIterative" => ret = DfsInOrder(heap, root)

\* dfsInOrderIterative() on a tree whose root has two children, one of
\* which has a child again.
IterativeInOrderWitness ==
  /\ call.op = "dfsInOrderIterative"
  /\ ret.kind = "array"
  /\ Len(ret.seq) >= 4
  /\ root # NULL
  /\ heap[root].left # NULL
  /\ heap[root].right # NULL

\* C7: bfs() on an empty tree returns an empty sequence or a defined error;
\* it does not read a property of the absent root and crash.
BfsEmptyDefined ==
  (call.op = "bfs" /\ root = NULL) =>
    /\ ret.kind # "TypeError"
    /\ ret.kind = "array" => ret.seq = <<>>

\* The answer a lookup of v owes: the node holding v, or undefined.
Lookup(h, r, v) ==
  IF v \in Vals(h, r)
  THEN RetNode(CHOOSE n \in Nodes(h, r) : h[n].val = v)
  ELSE RetUndefined

\* C8: on every tree reached by insert and remove calls, find(v) and
\* findRecursively(v) each return the node holding v when v is stored and
\* undefined when it is not (the empty tree included), and the two never
\* disagree.
FindReturnsNodeOrAbsent ==
  /\ call.op \in {"find", "findRecursively"} => ret = Lookup(heap, root, call.arg)
  /\ \A v \in Values :
       Find(heap, root, v) = FindRecursively(heap, root, root, v)

\* findRecursively(v) found v in a node two levels below the root, on a
\* path that turns right and then left.
FindReturnsNodeWitness ==
  /\ call.op = "findRecursively"
  /\ ret.kind = "node"
  /\ heap[ret.node].val = call.arg
  /\ heap[root].right # NULL
  /\ heap[heap[root].right].left = ret.node

\* C9: for every input sequence of values, insert applied to one empty tree
\* and insertRecursively applied to another produce identical trees: each
\* call returns and the two trees have the same shape and the same value at
\* every position.  Checked under SpecPair.
InsertVariantsBuildSameTree ==
  /\ ret.kind = "this"
  /\ Shape(heap, root) = Shape(twin.heap, twin.root)

\* C10: findSecondHighest() returns the second-largest stored value when
\* the tree holds at least two values, and undefined when it is empty or
\* has one node.
FindSecondHighestCorrect ==
  call.op = "findSecondHighest" =>
    ret = IF Cardinality(Vals(heap, root)) >= 2
          THEN RetValue(Largest(Vals(heap, root) \ {Largest(Vals(heap, root))}))
          ELSE RetUndefined

-----------------------------------------------------------------------------
\* C11: isBalanced() returns true exactly when every node n of the tree has
\* maxDepth(n) - minDepth(n) <= 1, the depths counting the nodes on the
\* longest / shortest path from n down to an empty child slot; the empty
\* tree is balanced.  The code looks at the root alone.
IsBalancedAtEveryNode ==
  call.op = "isBalanced" =>
    /\ ret.kind \in {"true", "false"}
    /\ ret.kind = "true" <=>
         \A n \in Nodes(heap, root) : maxDepth(heap, n) - minDepth(heap, n) <= 1

\* isBalanced() answered false on a tree whose root has two children: the
\* imbalance is not a missing child of the root.
IsBalancedWitness ==
  /\ call.op = "isBalanced"
  /\ ret.kind = "false"
  /\ root # NULL
  /\ heap[root].left # NULL
  /\ heap[root].right # NULL

\* C12: insertRecursively(v) on a tree that already contains v is silently
\* ignored: it returns, no node is added and the tree is left as it was.
\* Checked under SpecRec.
InsertRecursivelyIgnoresDuplicate ==
  (call.op = "insertRecursively" /\ call.arg \in Vals(prev.heap, prev.root)) =>
    /\ ret.kind = "this"
    /\ Tree(heap, root) = prev

\* C13: after any sequence of insert, insertRecursively and remove calls
\* that return, values possibly repeated, dfsInOrder() yields the stored
\* values in non-decreasing order.  Checked under SpecRec.
InOrderSorted ==
  call.op = "dfsInOrder" =>
    /\ ret.kind = "array"
    /\ Len(ret.seq) = Cardinality(Nodes(heap, root))
    /\ {ret.seq[i] : i \in 1..Len(ret.seq)} = Vals(heap, root)
    /\ \A i \in 1..Len(ret.seq) : \A j \in i..Len(ret.seq) : ret.seq[i] <= ret.seq[j]

\* dfsInOrder() on a tree that holds some value twice, beside others.
InOrderSortedWitness ==
  /\ call.op = "dfsInOrder"
  /\ Len(ret.seq) >= 4
  /\ Cardinality(Vals(heap, root)) >= 3
  /\ \E i \in 1..(Len(ret.seq) - 1) : ret.seq[i] = ret.seq[i + 1]

\* The number of places of s that hold v.
Count(s, v) == Cardinality({i \in 1..Len(s) : s[i] = v})

Traversals == {"dfsPreOrder", "dfsInOrder", "dfsPostOrder", "dfsInOrderIterative", "bfs"}

\* C14: after inserting N pairwise distinct values into an empty tree, each
\* of dfsPreOrder, dfsInOrder, dfsPostOrder, dfsInOrderIterative and bfs
\* returns exactly N values, each inserted value once.  Checked under
\* SpecFill, where given lists the N values inserted.
TraversalsYieldInserted ==
  call.op \in Traversals =>
    /\ ret.kind = "array"
    /\ Len(ret.seq) = Len(given)
    /\ \A v \in Values : Count(ret.seq, v) = Count(given, v)

\* The first empty child slot on the comparison path of v from node n:
\* left of a node holding more than v, right of a node holding less.
RECURSIVE ComparisonSlot(_, _, _)
ComparisonSlot(h, n, v) ==
  IF v < h[n].val
  THEN IF h[n].left = NULL THEN [node |-> n, side |-> "left"]
       ELSE ComparisonSlot(h, h[n].left, v)
  ELSE IF h[n].right = NULL THEN [node |-> n, side |-> "right"]
       ELSE ComparisonSlot(h, h[n].right, v)

\* The last call was insert(v) on a non-empty tree that did not hold v.
InsertedNew ==
  /\ call.op = "insert"
  /\ prev.root # NULL
  /\ call.arg \notin Vals(prev.heap, prev.root)

\* C15: insert(v) of a value not yet in a non-empty tree places exactly one
\* new childless node holding v in the first empty child slot on the
\* comparison path from the root, and leaves the root, every existing
\* node's value and every other child link unchanged.
InsertPlacesOneLeaf ==
  InsertedNew =>
    LET slot == ComparisonSlot(prev.heap, prev.root, call.arg)
        new == Len(prev.heap) + 1
    IN /\ ret.kind = "this"
       /\ root = prev.root
       /\ Len(heap) = new
       /\ heap[new] = Node(call.arg)
       /\ \A n \in 1..Len(prev.heap) :
            /\ heap[n].val = prev.heap[n].val
            /\ heap[n].left = IF slot.node = n /\ slot.side = "left"
                              THEN new ELSE prev.heap[n].left
            /\ heap[n].right = IF slot.node = n /\ slot.side = "right"
                               THEN new ELSE prev.heap[n].right

\* insert(v) placed its node two levels below the root, in a tree of at
\* least four nodes.
InsertPlacesOneLeafWitness ==
  /\ InsertedNew
  /\ ret.kind = "this"
  /\ Len(prev.heap) >= 4
  /\ LET slot == ComparisonSlot(prev.heap, prev.root, call.arg)
     IN /\ slot.node # prev.root
        /\ heap[root].left # slot.node
        /\ heap[root].right # slot.node

\* The smallest element of a non-empty set of numbers.
Smallest(S) == CHOOSE x \in S : \A y \in S : x <= y

\* The turns of the comparison path from node n to the node holding v.
RECURSIVE PathTo(_, _, _)
PathTo(h, n, v) ==
  IF h[n].val = v THEN <<>>
  ELSE IF v < h[n].val THEN <<"left">> \o PathTo(h, h[n].left, v)
  ELSE <<"right">> \o PathTo(h, h[n].right, v)

\* The node a path of turns leads to from node n.
RECURSIVE Follow(_, _, _)
Follow(h, n, path) ==
  IF path = <<>> THEN n
  ELSE Follow(h, IF Head(path) = "left" THEN h[n].left ELSE h[n].right, Tail(path))

\* A tree value without its leftmost node, whose right subtree takes the
\* place the node had.
RECURSIVE DropLeftmost(_)
DropLeftmost(shape) ==
  IF shape[2] = <<>> THEN shape[3]
  ELSE <<shape[1], DropLeftmost(shape[2]), shape[3]>>

\* The last call removed a value held by a node with two children.
RemovedTwoChildren ==
  /\ RemovedPresent
  /\ ret.kind = "node"
  /\ prev.heap[ret.node].left # NULL
  /\ prev.heap[ret.node].right # NULL

\* C16: when remove(v) removes a node that has two children, the position
\* the node occupied afterwards holds the in-order successor (the smallest
\* value of the node's former right subtree), the node's former left
\* subtree is still the left subtree of that position, and the successor's
\* own right subtree takes the place the successor occupied.
RemoveTwoChildrenPromotesSuccessor ==
  RemovedTwoChildren =>
    LET old == prev.heap[ret.node]
        pos == Follow(heap, root, PathTo(prev.heap, prev.root, call.arg))
    IN /\ pos # NULL
       /\ heap[pos].val = Smallest(Vals(prev.heap, old.right))
       /\ heap[pos].left = old.left
       /\ Shape(heap, heap[pos].left) = Shape(prev.heap, old.left)
       /\ Shape(heap, heap[pos].right) = DropLeftmost(Shape(prev.heap, old.right))

\* A remove of a node below the root with two children whose right child
\* was the successor and had a right child of its own.
RemoveTwoChildrenWitness ==
  /\ RemovedTwoChildren
  /\ ret.node # prev.root
  /\ prev.heap[prev.heap[ret.node].right].left = NULL
  /\ prev.heap[prev.heap[ret.node].right].right # NULL

\* The node of the tree at root r that holds the largest value, and the
\* node that links to node m.
LargestNode(h, r) == CHOOSE n \in Nodes(h, r) : h[n].val = Largest(Vals(h, r))
ParentOf(h, r, m) == CHOOSE p \in Nodes(h, r) : h[p].left = m \/ h[p].right = m

\* The last call was findSecondHighest() on a valid search tree of at least
\* two nodes whose largest value sits in a leaf.
SecondHighestWithLargestInLeaf ==
  /\ call.op = "findSecondHighest"
  /\ Ordered(heap, root)
  /\ Cardinality(Nodes(heap, root)) >= 2
  /\ heap[LargestNode(heap, root)].left = NULL
  /\ heap[LargestNode(heap, root)].right = NULL

\* C17: on a valid search tree with at least two nodes whose largest value
\* sits in a leaf, findSecondHighest() returns the value of that leaf's
\* parent, and this value is the second-largest value of the tree.
FindSecondHighestLeafCase ==
  SecondHighestWithLargestInLeaf =>
    LET p == ParentOf(heap, root, LargestNode(heap, root))
    IN /\ ret = RetValue(heap[p].val)
       /\ heap[p].val = Largest(Vals(heap, root) \ {Largest(Vals(heap, root))})

\* findSecondHighest() on a tree of at least four nodes whose largest leaf
\* hangs below a node other than the root, that node having a left child.
FindSecondHighestLeafWitness ==
  /\ SecondHighestWithLargestInLeaf
  /\ Cardinality(Nodes(heap, root)) >= 4
  /\ LET p == ParentOf(heap, root, LargestNode(heap, root))
     IN p # root /\ heap[p].left # NULL

\* The last step was insert(v) followed by remove(v), on a tree that did
\* not hold v.
RoundTripOfNew ==
  /\ call.op = "insertThenRemove"
  /\ call.arg \notin Vals(prev.heap, prev.root)

\* C18: for every tree of distinct values that does not contain v, the
\* empty tree included, insert(v) followed by remove(v) restores exactly the
\* tree that existed before the insert: same root, same shape, same values.
\* Checked under SpecRound.
InsertRemoveRoundTrip ==
  RoundTripOfNew =>
    /\ ret.kind = "node"
    /\ root = prev.root
    /\ Shape(heap, root) = Shape(prev.heap, prev.root)
    /\ \A n \in 1..Len(prev.heap) : heap[n] = prev.heap[n]

\* A round trip on a tree of at least three nodes, the value going in and
\* out below a node other than the root.
InsertRemoveRoundTripWitness ==
  /\ RoundTripOfNew
  /\ ret.kind = "node"
  /\ Len(prev.heap) >= 3
  /\ ComparisonSlot(prev.heap, prev.root, call.arg).node # prev.root

Queries ==
  {"find", "findRecursively", "dfsPreOrder", "dfsInOrder", "dfsPostOrder",
   "dfsInOrderIterative", "bfs", "isBalanced", "findSecondHighest"}

====
